---- MODULE Spec2Model ----
(***************************************************************************)
(* Model of package sys (arschles/sys): the in-memory filesystem FakeFS,   *)
(* the write handle inMemoryCloser, the descriptor stub FakeFI and the     *)
(* path-walk stub FakeFP.                                                  *)
(*                                                                         *)
(* Go pointers are indices into heaps: a *bytes.Buffer is an index into    *)
(* bufs, a *FakeFI is an index into fis.  A Go map is a function whose     *)
(* DOMAIN is the set of keys present; a nil map is the flag isNil.         *)
(* The buffer heap holds the buffers that are still reachable (from a      *)
(* Files map or from a handle the caller holds): Go's garbage collector    *)
(* reclaims the others, and no operation can observe them.                 *)
(* A path is a sequence of segments (<<"dir","file">> is "dir/file").      *)
(***************************************************************************)
EXTENDS Integers, Sequences, FiniteSets, TLC

\* ---------------------------------------------------------------- bounds
MaxBufs == 2      \* bytes.Buffer objects alive at one time
MaxBytes == 2     \* bytes held by all the buffers alive at one time
MaxFIs == 2       \* FakeFI objects allocated in one run

Byte == {1, 2}
Paths == {<<"dir">>, <<"dir", "file">>}
Modes == {420, 493}   \* 0644, 0755: the os.FileMode handed to MkdirAll
FilePerms == {420}    \* the os.FileMode handed to WriteFile
Objs == {"fs", "fp"}
Datas == {<<>>, <<1>>, <<2>>, <<1, 2>>}   \* the byte slices handed to WriteFile and Write
Visitors == {"retNil", "retErr", "setIsDirRetNil"}

\* error values
NoErr == "nil"
FakeFileNotFound == "FakeFileNotFound"
ErrNotExist == "os.ErrNotExist"
VisitorErr == "visitorErr"

VARIABLES
    fakeFS,   \* the *FakeFS returned by NewFakeFS
    fakeFP,   \* the *FakeFP returned by NewFakeFP
    bufs,     \* heap of bytes.Buffer: bufs[i] is the content of buffer i
    handles,  \* buffers for which Create returned an inMemoryCloser to the caller
    closed,   \* handles on which the caller has called Close
    written,  \* written[h]: the bytes the caller has passed to Write on handle h, in order
    fis,      \* heap of FakeFI: fis[i] is the isDir field of descriptor i
    last      \* the most recent call and what it returned

vars == <<fakeFS, fakeFP, bufs, handles, closed, written, fis, last>>

\* ------------------------------------------------------------ Go map
EmptyMap == <<>>
MapHas(m, k) == k \in DOMAIN m
MapSet(m, k, v) == [x \in DOMAIN m \cup {k} |-> IF x = k THEN v ELSE m[x]]
MapDelete(m, k) == [x \in DOMAIN m \ {k} |-> m[x]]

\* ------------------------------------------------------------ buffer heap
EmptyHeap == <<>>

\* new(bytes.Buffer): a fresh, empty buffer at an address not in use
NewBuffer(heap) == CHOOSE i \in 1..(Cardinality(DOMAIN heap) + 1) :
                      /\ i \notin DOMAIN heap
                      /\ \A j \in 1..(i - 1) : j \in DOMAIN heap

HeapSet(heap, i, buf) == [x \in DOMAIN heap \cup {i} |-> IF x = i THEN buf ELSE heap[x]]

MapRange(m) == {m[k] : k \in DOMAIN m}

\* garbage collection: only the buffers reachable from roots remain
Collect(heap, roots) == [x \in DOMAIN heap \cap roots |-> heap[x]]

\* the bytes the buffers at addresses S hold together
RECURSIVE BytesIn(_, _)
BytesIn(heap, S) ==
    IF S = {} THEN 0
    ELSE LET x == CHOOSE y \in S : TRUE
         IN Len(heap[x]) + BytesIn(heap, S \ {x})

HeapBytes(heap) == BytesIn(heap, DOMAIN heap)

\* ------------------------------------------------------------ constructors
NewFakeFS == [isNil |-> FALSE, Files |-> EmptyMap]

\* &FakeFP{}: the embedded FakeFS is the zero value, its Files map is nil
NewFakeFP == [FakeFS |-> [isNil |-> TRUE, Files |-> EmptyMap], walkInvoked |-> FALSE]

NewFakeFI == FALSE

IsDir(heap, i) == heap[i]

SetIsDirFI(heap, i, isDir) == [heap EXCEPT ![i] = isDir]

\* the FakeFS an object exposes: FakeFP promotes the methods of its embedded FakeFS
FSOf(o) == IF o = "fs" THEN fakeFS ELSE fakeFP.FakeFS

\* ------------------------------------------------------------ results
\* last: the call (op, obj, path, data, perm, visitor, h), what the path held when
\* it was made (before), and what the call returned
NoRes == [op |-> "none", obj |-> "fs", path |-> <<>>, data |-> <<>>, perm |-> 0,
          visitor |-> "none", before |-> "none",
          n |-> 0, err |-> NoErr, Filename |-> <<>>, bytes |-> <<>>,
          fi |-> 0, h |-> 0, panicked |-> FALSE, calls |-> <<>>]

\* what path holds in f: no entry, an empty buffer, or bytes
Holds(f, heap, path) ==
    IF ~(path \in DOMAIN f.Files) THEN "absent"
    ELSE IF heap[f.Files[path]] = <<>> THEN "empty" ELSE "data"

\* bytes.Buffer.Write as used by inMemoryCloser.Write and FakeFS.WriteFile
BufferWrite(buf, b) == [buf |-> buf \o b, n |-> Len(b), err |-> NoErr]

\* ------------------------------------------------------------ FakeFS methods
\* Each takes the receiver f and the buffer heap, and returns the receiver and
\* heap after the call together with the returned values.

\* mutant: a missing file reads as an empty one
ReadFileFSMissingIsEmpty(f, heap, name) ==
    IF ~MapHas(f.Files, name)
    THEN [bytes |-> <<>>, err |-> NoErr, Filename |-> <<>>]
    ELSE [bytes |-> heap[f.Files[name]], err |-> NoErr, Filename |-> <<>>]

ReadFileFS(f, heap, name) ==
    IF ~MapHas(f.Files, name)
    THEN [bytes |-> <<>>, err |-> FakeFileNotFound, Filename |-> name]
    ELSE [bytes |-> heap[f.Files[name]], err |-> NoErr, Filename |-> <<>>]

\* mutant: removing a missing path is no error, as with os.RemoveAll
RemoveAllFSLenient(f, heap, name) ==
    [f |-> [f EXCEPT !.Files = MapDelete(f.Files, name)], err |-> NoErr,
     Filename |-> <<>>]

\* mutant: the subtree under name goes too, as with os.RemoveAll
RemoveAllFSTree(f, heap, name) ==
    IF ~MapHas(f.Files, name)
    THEN [f |-> f, err |-> FakeFileNotFound, Filename |-> name]
    ELSE [f |-> [f EXCEPT !.Files =
                    [x \in {q \in DOMAIN f.Files :
                               ~(Len(name) <= Len(q) /\ SubSeq(q, 1, Len(name)) = name)}
                        |-> f.Files[x]]],
          err |-> NoErr, Filename |-> <<>>]

RemoveAllFS(f, heap, name) ==
    IF ~MapHas(f.Files, name)
    THEN [f |-> f, err |-> FakeFileNotFound, Filename |-> name]
    ELSE [f |-> [f EXCEPT !.Files = MapDelete(f.Files, name)], err |-> NoErr,
          Filename |-> <<>>]

\* mutant: one descriptor is allocated once and handed out by every Stat
StatFSShared(f, heap, fiHeap, path) ==
    IF ~MapHas(f.Files, path)
    THEN [fiHeap |-> fiHeap, fi |-> 0, err |-> ErrNotExist]
    ELSE IF fiHeap # <<>>
         THEN [fiHeap |-> fiHeap, fi |-> 1, err |-> NoErr]
         ELSE [fiHeap |-> Append(fiHeap, FALSE), fi |-> 1, err |-> NoErr]

StatFS(f, heap, fiHeap, path) ==
    IF ReadFileFS(f, heap, path).err # NoErr
    THEN [fiHeap |-> fiHeap, fi |-> 0, err |-> ErrNotExist]
    ELSE [fiHeap |-> Append(fiHeap, NewFakeFI), fi |-> Len(fiHeap) + 1, err |-> NoErr]

\* mutant: an existing entry is truncated in place and its buffer handed out again
CreateFSReuse(f, heap, path) ==
    IF f.isNil
    THEN [f |-> f, heap |-> heap, h |-> 0, err |-> NoErr, panicked |-> TRUE]
    ELSE IF MapHas(f.Files, path)
         THEN [f |-> f, heap |-> HeapSet(heap, f.Files[path], <<>>),
               h |-> f.Files[path], err |-> NoErr, panicked |-> FALSE]
         ELSE [f |-> [f EXCEPT !.Files = MapSet(f.Files, path, NewBuffer(heap))],
               heap |-> HeapSet(heap, NewBuffer(heap), <<>>), h |-> NewBuffer(heap),
               err |-> NoErr, panicked |-> FALSE]

\* assignment to an entry of a nil map panics
CreateFS(f, heap, path) ==
    IF f.isNil
    THEN [f |-> f, heap |-> heap, h |-> 0, err |-> NoErr, panicked |-> TRUE]
    ELSE LET buf == NewBuffer(heap)
         IN [f |-> [f EXCEPT !.Files = MapSet(f.Files, path, buf)],
             heap |-> HeapSet(heap, buf, <<>>), h |-> buf, err |-> NoErr,
             panicked |-> FALSE]

\* mutant: an entry that already exists is left as it is, as with os.MkdirAll
MkdirAllFSKeep(f, heap, dirName, perm) ==
    IF ~f.isNil /\ MapHas(f.Files, dirName)
    THEN [f |-> f, heap |-> heap, err |-> NoErr, panicked |-> FALSE]
    ELSE [f |-> CreateFS(f, heap, dirName).f, heap |-> CreateFS(f, heap, dirName).heap,
          err |-> CreateFS(f, heap, dirName).err,
          panicked |-> CreateFS(f, heap, dirName).panicked]

MkdirAllFS(f, heap, dirName, perm) ==
    LET c == CreateFS(f, heap, dirName)
    IN [f |-> c.f, heap |-> c.heap, err |-> c.err, panicked |-> c.panicked]

\* mutant: the bytes go to the buffer already at filename, when there is one
WriteFileFSAppend(f, heap, filename, data, perm) ==
    IF f.isNil
    THEN [f |-> f, heap |-> heap, n |-> 0, err |-> NoErr, panicked |-> TRUE]
    ELSE IF MapHas(f.Files, filename)
         THEN [f |-> f,
               heap |-> HeapSet(heap, f.Files[filename], heap[f.Files[filename]] \o data),
               n |-> Len(data), err |-> NoErr, panicked |-> FALSE]
         ELSE [f |-> [f EXCEPT !.Files = MapSet(f.Files, filename, NewBuffer(heap))],
               heap |-> HeapSet(heap, NewBuffer(heap), data),
               n |-> Len(data), err |-> NoErr, panicked |-> FALSE]

WriteFileFS(f, heap, filename, data, perm) ==
    IF f.isNil
    THEN [f |-> f, heap |-> heap, n |-> 0, err |-> NoErr, panicked |-> TRUE]
    ELSE LET buf == NewBuffer(heap)
             f1 == [f EXCEPT !.Files = MapSet(f.Files, filename, buf)]
             heap1 == HeapSet(heap, buf, <<>>)
             w == BufferWrite(heap1[f1.Files[filename]], data)
         IN [f |-> f1, heap |-> HeapSet(heap1, f1.Files[filename], w.buf),
             n |-> w.n, err |-> w.err, panicked |-> FALSE]

\* mutant: a write replaces what the buffer held
WriteHandleOverwrite(heap, h, b) ==
    [heap |-> HeapSet(heap, h, b), n |-> Len(b), err |-> NoErr]

\* inMemoryCloser
WriteHandle(heap, h, b) ==
    LET w == BufferWrite(heap[h], b)
    IN [heap |-> HeapSet(heap, h, w.buf), n |-> w.n, err |-> w.err]

CloseHandle(heap, h) == [heap |-> heap, err |-> NoErr]

\* the visitor is the caller's function: what it does with the descriptor it is
\* handed and what it returns
VisitorRun(v, fiHeap, fi) ==
    [fiHeap |-> IF v = "setIsDirRetNil" THEN SetIsDirFI(fiHeap, fi, TRUE) ELSE fiHeap,
     ret |-> IF v = "retErr" THEN VisitorErr ELSE NoErr]

\* mutant: the walk is recorded after the visitor, and only when it returned nil
WalkFPMarkAfter(fp, fiHeap, root, v) ==
    [fp |-> [fp EXCEPT !.walkInvoked = (v # "retErr")],
     fiHeap |-> IF v = "setIsDirRetNil" THEN Append(fiHeap, TRUE) ELSE Append(fiHeap, FALSE),
     calls |-> <<[path |-> root, fi |-> Len(fiHeap) + 1, isDir |-> FALSE, err |-> NoErr]>>,
     ret |-> IF v = "retErr" THEN VisitorErr ELSE NoErr]

WalkFP(fp, fiHeap, root, v) ==
    LET fp1 == [fp EXCEPT !.walkInvoked = TRUE]
        fiHeap1 == Append(fiHeap, NewFakeFI)
        fi == Len(fiHeap) + 1
        call == [path |-> root, fi |-> fi, isDir |-> IsDir(fiHeap1, fi), err |-> NoErr]
        r == VisitorRun(v, fiHeap1, fi)
    IN [fp |-> fp1, fiHeap |-> r.fiHeap, calls |-> <<call>>, ret |-> r.ret]

\* ------------------------------------------------------------ state machine
SetFS(o, f) ==
    /\ fakeFS' = IF o = "fs" THEN f ELSE fakeFS
    /\ fakeFP' = IF o = "fp" THEN [fakeFP EXCEPT !.FakeFS = f] ELSE fakeFP

\* the buffers the program can still reach after the step
Roots == handles' \cup MapRange(fakeFS'.Files) \cup MapRange(fakeFP'.FakeFS.Files)

\* room for one more buffer
CanAlloc == Cardinality(DOMAIN bufs) < MaxBufs

\* the buffers left after the step fit the memory
Fits == HeapBytes(bufs') <= MaxBytes

Init ==
    /\ fakeFS = NewFakeFS
    /\ fakeFP = NewFakeFP
    /\ bufs = EmptyHeap
    /\ handles = {}
    /\ closed = {}
    /\ written = <<>>
    /\ fis = <<>>
    /\ last = NoRes

ReadFile(o, name) ==
    LET r == ReadFileFS(FSOf(o), bufs, name)
    IN /\ last' = [NoRes EXCEPT !.op = "ReadFile", !.obj = o, !.path = name,
                       !.bytes = r.bytes, !.err = r.err, !.Filename = r.Filename]
       /\ UNCHANGED <<fakeFS, fakeFP, bufs, handles, closed, written, fis>>

RemoveAll(o, name) ==
    LET r == RemoveAllFS(FSOf(o), bufs, name)
    IN /\ SetFS(o, r.f)
       /\ last' = [NoRes EXCEPT !.op = "RemoveAll", !.obj = o, !.path = name,
                       !.before = Holds(FSOf(o), bufs, name),
                       !.err = r.err, !.Filename = r.Filename]
       /\ handles' = handles
       /\ bufs' = Collect(bufs, Roots)
       /\ UNCHANGED <<closed, written, fis>>

Stat(o, path) ==
    LET r == StatFS(FSOf(o), bufs, fis, path)
    IN /\ Len(r.fiHeap) <= MaxFIs
       /\ fis' = r.fiHeap
       /\ last' = [NoRes EXCEPT !.op = "Stat", !.obj = o, !.path = path,
                       !.fi = r.fi, !.err = r.err]
       /\ UNCHANGED <<fakeFS, fakeFP, bufs, handles, closed, written>>

Create(o, path) ==
    LET r == CreateFS(FSOf(o), bufs, path)
    IN /\ CanAlloc
       /\ SetFS(o, r.f)
       /\ handles' = IF r.panicked THEN handles ELSE handles \cup {r.h}
       /\ bufs' = Collect(r.heap, Roots)
       /\ written' = IF r.panicked THEN written
                     ELSE [x \in handles' |-> IF x = r.h THEN <<>> ELSE written[x]]
       /\ last' = [NoRes EXCEPT !.op = "Create", !.obj = o, !.path = path,
                       !.before = Holds(FSOf(o), bufs, path),
                       !.h = r.h, !.err = r.err, !.panicked = r.panicked]
       /\ UNCHANGED <<closed, fis>>

MkdirAll(o, dirName, perm) ==
    LET r == MkdirAllFS(FSOf(o), bufs, dirName, perm)
    IN /\ CanAlloc
       /\ SetFS(o, r.f)
       /\ handles' = handles
       /\ bufs' = Collect(r.heap, Roots)
       /\ last' = [NoRes EXCEPT !.op = "MkdirAll", !.obj = o, !.path = dirName,
                       !.perm = perm, !.before = Holds(FSOf(o), bufs, dirName),
                       !.err = r.err, !.panicked = r.panicked]
       /\ UNCHANGED <<closed, written, fis>>

WriteFile(o, filename, data, perm) ==
    LET r == WriteFileFS(FSOf(o), bufs, filename, data, perm)
    IN /\ CanAlloc
       /\ SetFS(o, r.f)
       /\ handles' = handles
       /\ bufs' = Collect(r.heap, Roots)
       /\ last' = [NoRes EXCEPT !.op = "WriteFile", !.obj = o, !.path = filename,
                       !.data = data, !.before = Holds(FSOf(o), bufs, filename),
                       !.n = r.n, !.err = r.err, !.panicked = r.panicked]
       /\ Fits
       /\ UNCHANGED <<closed, written, fis>>

Write(h, b) ==
    /\ h \in handles
    /\ LET r == WriteHandle(bufs, h, b)
       IN /\ bufs' = r.heap
          /\ Fits
          /\ last' = [NoRes EXCEPT !.op = "Write", !.h = h, !.data = b,
                          !.n = r.n, !.err = r.err]
    /\ written' = [written EXCEPT ![h] = @ \o b]
    /\ UNCHANGED <<fakeFS, fakeFP, handles, closed, fis>>

Close(h) ==
    /\ h \in handles
    /\ LET r == CloseHandle(bufs, h)
       IN /\ bufs' = r.heap
          /\ last' = [NoRes EXCEPT !.op = "Close", !.h = h, !.err = r.err]
    /\ closed' = closed \cup {h}
    /\ UNCHANGED <<fakeFS, fakeFP, handles, written, fis>>

SetIsDir(i, isDir) ==
    /\ i \in 1..Len(fis)
    /\ fis' = SetIsDirFI(fis, i, isDir)
    /\ last' = [NoRes EXCEPT !.op = "SetIsDir", !.fi = i]
    /\ UNCHANGED <<fakeFS, fakeFP, bufs, handles, closed, written>>

Walk(root, v) ==
    LET r == WalkFP(fakeFP, fis, root, v)
    IN /\ Len(r.fiHeap) <= MaxFIs
       /\ fakeFP' = r.fp
       /\ fis' = r.fiHeap
       /\ last' = [NoRes EXCEPT !.op = "Walk", !.obj = "fp", !.path = root,
                       !.visitor = v, !.calls = r.calls, !.err = r.ret]
       /\ UNCHANGED <<fakeFS, bufs, handles, closed, written>>

\* the complete program: every operation on both objects
Next ==
    \/ \E o \in Objs, p \in Paths : ReadFile(o, p)
    \/ \E o \in Objs, p \in Paths : RemoveAll(o, p)
    \/ \E o \in Objs, p \in Paths : Stat(o, p)
    \/ \E o \in Objs, p \in Paths : Create(o, p)
    \/ \E o \in Objs, p \in Paths, m \in Modes : MkdirAll(o, p, m)
    \/ \E o \in Objs, p \in Paths, d \in Datas, m \in FilePerms : WriteFile(o, p, d, m)
    \/ \E h \in 1..MaxBufs, b \in Datas : Write(h, b)
    \/ \E h \in 1..MaxBufs : Close(h)
    \/ \E i \in 1..MaxFIs, b \in BOOLEAN : SetIsDir(i, b)
    \/ \E p \in Paths, v \in Visitors : Walk(p, v)

Spec == Init /\ [][Next]_vars

\* The specifications below restrict Next to the calls one kind of program makes.
\* An action left out of one of them writes none of the variables that the
\* properties stated under it read, other than last: Stat, SetIsDir and Walk
\* write only fis and walkInvoked, Close writes only closed, and the methods
\* promoted by FakeFP act on the Files map of the FakeFP alone.  SpecAPI also
\* leaves out Write: it is the program of the FakeFS methods and Walk, and what
\* a Write does to the mapping is stated under SpecFS.

\* a program that uses the FakeFS of NewFakeFS and the handles it returns
NextFS ==
    \/ \E p \in Paths : ReadFile("fs", p)
    \/ \E p \in Paths : RemoveAll("fs", p)
    \/ \E p \in Paths : Create("fs", p)
    \/ \E p \in Paths, m \in Modes : MkdirAll("fs", p, m)
    \/ \E p \in Paths, d \in Datas, m \in FilePerms : WriteFile("fs", p, d, m)
    \/ \E h \in 1..MaxBufs, b \in Datas : Write(h, b)
    \/ \E h \in 1..MaxBufs : Close(h)

SpecFS == Init /\ [][NextFS]_vars

\* a program that uses the FakeFS of NewFakeFS and the descriptors Stat returns
NextFI ==
    \/ \E p \in Paths : RemoveAll("fs", p)
    \/ \E p \in Paths : Create("fs", p)
    \/ \E p \in Paths, m \in Modes : MkdirAll("fs", p, m)
    \/ \E p \in Paths, d \in Datas, m \in FilePerms : WriteFile("fs", p, d, m)
    \/ \E p \in Paths : Stat("fs", p)
    \/ \E i \in 1..MaxFIs, b \in BOOLEAN : SetIsDir(i, b)

SpecFI == Init /\ [][NextFI]_vars

\* a program that uses the FakeFP of NewFakeFP: Walk and the promoted FakeFS methods
NextFP ==
    \/ \E p \in Paths : ReadFile("fp", p)
    \/ \E p \in Paths : RemoveAll("fp", p)
    \/ \E p \in Paths : Stat("fp", p)
    \/ \E p \in Paths : Create("fp", p)
    \/ \E p \in Paths, m \in Modes : MkdirAll("fp", p, m)
    \/ \E p \in Paths, d \in Datas, m \in FilePerms : WriteFile("fp", p, d, m)
    \/ \E i \in 1..MaxFIs, b \in BOOLEAN : SetIsDir(i, b)
    \/ \E p \in Paths, v \in Visitors : Walk(p, v)

SpecFP == Init /\ [][NextFP]_vars

\* a program that calls the six methods of the FakeFS of NewFakeFS, and Walk,
\* and writes through no handle
NextAPI ==
    \/ \E p \in Paths : ReadFile("fs", p)
    \/ \E p \in Paths : RemoveAll("fs", p)
    \/ \E p \in Paths : Stat("fs", p)
    \/ \E p \in Paths : Create("fs", p)
    \/ \E p \in Paths, m \in Modes : MkdirAll("fs", p, m)
    \/ \E p \in Paths, d \in Datas, m \in FilePerms : WriteFile("fs", p, d, m)
    \/ \E p \in Paths, v \in Visitors : Walk(p, v)

SpecAPI == Init /\ [][NextAPI]_vars

\* ------------------------------------------------------------ properties
\* what a ReadFile / Stat issued in the current state returns
ReadNow(o, path) == ReadFileFS(FSOf(o), bufs, path)
StatNow(o, path) == StatFS(FSOf(o), bufs, fis, path)

\* presence and contents of path in f, as a caller can observe them
Entry(f, heap, path) ==
    IF path \in DOMAIN f.Files THEN <<TRUE, heap[f.Files[path]]>> ELSE <<FALSE, <<>>>>

OnFS(op) == last.op = op /\ last.obj = "fs"

\* C1: on the FakeFS of NewFakeFS, in every reachable state, WriteFile(p, data, mode)
\* returns (len(data), nil) and a ReadFile(p) issued right after it returns exactly
\* data, whatever p held before: the contents are replaced, never appended to.
C1_WriteFileRoundTrip ==
    OnFS("WriteFile") =>
        /\ ~last.panicked
        /\ last.n = Len(last.data)
        /\ last.err = NoErr
        /\ ReadNow("fs", last.path).err = NoErr
        /\ ReadNow("fs", last.path).bytes = last.data

\* a WriteFile of some bytes over a path that already held bytes
C1_Witness ==
    /\ OnFS("WriteFile")
    /\ last.before = "data"
    /\ last.data # <<>>

\* C2: ReadFile(p) of a path with no entry returns no bytes and
\* FakeFileNotFound{Filename: p}, and leaves the mapping unchanged.
C2_ReadFileNotFound ==
    [][(last'.op = "ReadFile" /\ last'.obj = "fs") =>
          /\ fakeFS' = fakeFS /\ bufs' = bufs
          /\ ~MapHas(fakeFS.Files, last'.path) =>
                /\ last'.bytes = <<>>
                /\ last'.err = FakeFileNotFound
                /\ last'.Filename = last'.path]_vars

\* a failed ReadFile on a filesystem that is not fresh: the other path has an entry
C2_Witness ==
    /\ OnFS("ReadFile")
    /\ last.err = FakeFileNotFound
    /\ fakeFS.Files # EmptyMap

\* C3: Create(p) returns a handle and no error and makes p an empty entry; while
\* p still maps to the buffer of that handle, ReadFile(p) returns exactly the
\* bytes passed to Write on the handle, in write order; each Write returns the
\* length of its argument; Close returns no error and changes nothing, and
\* writes after Close still land.
C3_Handle ==
    /\ [](OnFS("Create") =>
            /\ ~last.panicked /\ last.err = NoErr
            /\ last.h \in handles
            /\ MapHas(fakeFS.Files, last.path) /\ fakeFS.Files[last.path] = last.h
            /\ ReadNow("fs", last.path).err = NoErr
            /\ ReadNow("fs", last.path).bytes = <<>>)
    /\ [](\A p \in DOMAIN fakeFS.Files :
            fakeFS.Files[p] \in handles =>
                /\ ReadNow("fs", p).err = NoErr
                /\ ReadNow("fs", p).bytes = written[fakeFS.Files[p]])
    /\ [](last.op = "Write" => last.n = Len(last.data) /\ last.err = NoErr)
    /\ [][last'.op = "Close" =>
            /\ last'.err = NoErr
            /\ fakeFS' = fakeFS /\ fakeFP' = fakeFP /\ bufs' = bufs]_vars

\* two writes through a handle, the second after Close, read back through the path
C3_Witness ==
    /\ last.op = "Write" /\ last.data # <<>>
    /\ last.h \in closed
    /\ \E p \in DOMAIN fakeFS.Files :
          /\ fakeFS.Files[p] = last.h
          /\ Len(ReadNow("fs", p).bytes) >= 2
          /\ ReadNow("fs", p).bytes[1] # ReadNow("fs", p).bytes[2]

\* C4: RemoveAll(p) of a path with an entry returns no error and deletes it, so
\* the next ReadFile(p) fails with FakeFileNotFound and the next Stat(p) with
\* os.ErrNotExist; RemoveAll(p) of a path with no entry fails with
\* FakeFileNotFound{Filename: p} and leaves the mapping unchanged.
C4_RemoveAll ==
    [][(last'.op = "RemoveAll" /\ last'.obj = "fs") =>
          IF MapHas(fakeFS.Files, last'.path)
          THEN /\ last'.err = NoErr
               /\ ~MapHas(fakeFS'.Files, last'.path)
               /\ ReadFileFS(fakeFS', bufs', last'.path).err = FakeFileNotFound
               /\ StatFS(fakeFS', bufs', fis', last'.path).err = ErrNotExist
          ELSE /\ last'.err = FakeFileNotFound
               /\ last'.Filename = last'.path
               /\ fakeFS' = fakeFS /\ bufs' = bufs]_vars

\* a RemoveAll that deleted an entry holding bytes
C4_Witness ==
    /\ OnFS("RemoveAll")
    /\ last.before = "data"
    /\ last.err = NoErr

\* C5: Stat(p) fails with os.ErrNotExist and a nil descriptor exactly when p has
\* no entry, and otherwise returns a fresh descriptor whose IsDir() is false,
\* whatever SetIsDir did to descriptors returned earlier; Stat never changes the
\* mapping.
C5_Stat ==
    [][(last'.op = "Stat" /\ last'.obj = "fs") =>
          /\ fakeFS' = fakeFS /\ bufs' = bufs
          /\ IF MapHas(fakeFS.Files, last'.path)
             THEN /\ last'.err = NoErr
                  /\ last'.fi \in 1..Len(fis') /\ last'.fi \notin 1..Len(fis)
                  /\ ~IsDir(fis', last'.fi)
                  /\ \A i \in 1..Len(fis) : fis'[i] = fis[i]
             ELSE /\ last'.err = ErrNotExist
                  /\ last'.fi = 0
                  /\ fis' = fis]_vars

\* a successful Stat after an earlier descriptor was set to report a directory
C5_Witness ==
    /\ OnFS("Stat")
    /\ last.err = NoErr
    /\ \E i \in 1..Len(fis) : i # last.fi /\ IsDir(fis, i)

\* C6: Walk(root, visitor) invokes the visitor exactly once, with root, a fresh
\* FakeFI whose IsDir() is false and a nil error; walkInvoked is false on a new
\* FakeFP and true from the first Walk on, also when the visitor returns an
\* error; Walk returns what the visitor returned.
C6_Walk ==
    /\ ~fakeFP.walkInvoked
    /\ [][/\ fakeFP.walkInvoked => fakeFP'.walkInvoked
          /\ fakeFP'.walkInvoked # fakeFP.walkInvoked => last'.op = "Walk"
          /\ last'.op = "Walk" =>
                /\ fakeFP'.walkInvoked
                /\ Len(last'.calls) = 1
                /\ last'.calls[1].path = last'.path
                /\ last'.calls[1].err = NoErr
                /\ last'.calls[1].isDir = FALSE
                /\ last'.calls[1].fi \notin 1..Len(fis)
                /\ last'.err = VisitorRun(last'.visitor, Append(fis, FALSE),
                                          last'.calls[1].fi).ret]_vars

\* a Walk whose visitor returned an error
C6_Witness ==
    /\ last.op = "Walk"
    /\ last.err = VisitorErr
    /\ fakeFP.walkInvoked

\* C7: Create, WriteFile and MkdirAll on a fake filesystem obtained from a public
\* constructor (NewFakeFS, or the FakeFS embedded in NewFakeFP's FakeFP) complete
\* normally, return no error and leave an entry at the path.
C7_AlwaysSucceeds ==
    last.op \in {"Create", "WriteFile", "MkdirAll"} =>
        /\ ~last.panicked
        /\ last.err = NoErr
        /\ MapHas(FSOf(last.obj).Files, last.path)

\* C8: MkdirAll(p, mode) returns no error and leaves an empty entry at p:
\* afterwards ReadFile(p) returns zero bytes and Stat(p) succeeds with IsDir()
\* false, whatever p held before and whatever the mode.
C8_MkdirAll ==
    OnFS("MkdirAll") =>
        /\ ~last.panicked
        /\ last.err = NoErr
        /\ ReadNow("fs", last.path).err = NoErr
        /\ ReadNow("fs", last.path).bytes = <<>>
        /\ StatNow("fs", last.path).err = NoErr
        /\ ~IsDir(StatNow("fs", last.path).fiHeap, StatNow("fs", last.path).fi)
        /\ \A m \in Modes :
              MkdirAllFS(fakeFS, bufs, last.path, m)
                  = MkdirAllFS(fakeFS, bufs, last.path, last.perm)

\* a MkdirAll over a path that held bytes
C8_Witness ==
    /\ OnFS("MkdirAll")
    /\ last.before = "data"

\* C9: a handle stays bound to the buffer Create installed, not to the path.
\* Create, WriteFile and MkdirAll install a buffer that no handle held before
\* the call is bound to, and RemoveAll leaves no buffer at the path; a Write
\* through a handle returns the length written and no error, changes only the
\* handle's own buffer and never the mapping, so it neither changes what another
\* buffer's path reads nor brings an entry back; a path maps to one buffer.
C9_HandleBoundToBuffer ==
    /\ [](\A p \in DOMAIN fakeFS.Files : fakeFS.Files[p] \in DOMAIN bufs)
    /\ [][/\ (last'.op \in {"Create", "WriteFile", "MkdirAll"} /\ last'.obj = "fs") =>
                /\ MapHas(fakeFS'.Files, last'.path)
                /\ fakeFS'.Files[last'.path] \notin handles
          /\ (last'.op = "RemoveAll" /\ last'.obj = "fs" /\ last'.err = NoErr) =>
                ~MapHas(fakeFS'.Files, last'.path)
          /\ last'.op = "Write" =>
                /\ last'.n = Len(last'.data) /\ last'.err = NoErr
                /\ fakeFS'.Files = fakeFS.Files
                /\ \A p \in Paths :
                      (~MapHas(fakeFS.Files, p) \/ fakeFS.Files[p] # last'.h) =>
                          Entry(fakeFS', bufs', p) = Entry(fakeFS, bufs, p)]_vars

\* bytes written through a stale handle while its path holds the buffer of a
\* later Create
C9_Witness ==
    /\ last.op = "Write" /\ last.data # <<>>
    /\ last.h \notin MapRange(fakeFS.Files)
    /\ \E p \in DOMAIN fakeFS.Files :
          /\ fakeFS.Files[p] \in handles
          /\ ReadNow("fs", p).bytes # bufs[last.h]

====
